---- MODULE Spec2Model ----
(***************************************************************************)
(* A model of the sprawl order service (package service) and of the p2p    *)
(* transport it broadcasts through (package p2p).                          *)
(*                                                                         *)
(* Byte strings produced by proto.Marshal are modelled as sets of          *)
(* <<field name, value>> pairs: proto3 leaves a field that holds its       *)
(* default value out of the encoding, and the decoder fills every field    *)
(* that is missing with its default and skips the fields it does not know. *)
(***************************************************************************)
EXTENDS Integers, Sequences, FiniteSets, TLC

\* ------------------------------------------------------------------ bounds
\* The clock of a node reads 1..MaxTime: ptypes.TimestampNow() returns a later
\* time at every call.
MaxTime == 1
\* At most MaxPending Send goroutines of a node are blocked on p2p.input at
\* a time.
MaxPending == 2
\* At most MaxReaders reader tasks are ever started (calls of Subscribe).
MaxReaders == 2
\* A subscription buffers at most MaxQueue messages its reader has not read.
MaxQueue == 1
\* Run() makes at most MaxHosts hosts on a node.
MaxHosts == 2
\* rand.Reader yields one of MaxSeeds seeds to a key generation.
MaxSeeds == 2

Nodes == {"A", "B"}
Channels == {"c1", "c2"}
Times == 1..MaxTime

\* ------------------------------------------------------- protobuf schema
States == {"OPEN", "LOCKED"}
Operations == {"CREATE", "DELETE", "LOCK", "UNLOCK"}

\* The zero value of a bytes field and of an unset message field.
NoBytes == <<>>
NoTimestamp == 0

\* The CreateRequests the API is called with: the one of the end-to-end
\* scenario, and one whose amount and price are the proto3 defaults.
Requests ==
    { [channelID |-> "c1", asset |-> "BTC", counterAsset |-> "USD",
       amount |-> 5, price |-> 35000],
      [channelID |-> "c2", asset |-> "ETH", counterAsset |-> "USD",
       amount |-> 0, price |-> 0] }

\* --------------------------------------------------------------- encoding
\* A buffer no protobuf decoder accepts (an illegal tag).
Garbage == {<<"badtag", 0>>}
\* The empty buffer: every message type decodes it to its zero value.
EmptyBuf == {}

HasField(buf, name) == \E p \in buf : p[1] = name
Field(buf, name, default) ==
    IF HasField(buf, name) THEN (CHOOSE p \in buf : p[1] = name)[2] ELSE default

\* One encoded field: nothing when the value is the field's default.
Enc(name, value, default) == IF value = default THEN {} ELSE {<<name, value>>}

Malformed(buf) == HasField(buf, "badtag")

\* proto.Marshal(order)
MarshalOrder(order) ==
    Enc("id", order.id, NoBytes) \cup
    Enc("created", order.created, NoTimestamp) \cup
    Enc("asset", order.asset, "") \cup
    Enc("counterAsset", order.counterAsset, "") \cup
    Enc("amount", order.amount, 0) \cup
    Enc("price", order.price, 0) \cup
    Enc("state", order.state, "OPEN")

\* proto.Unmarshal(buf, &pb.Order{})
UnmarshalOrder(buf) ==
    [ err |-> Malformed(buf),
      val |-> [ id |-> Field(buf, "id", NoBytes),
                created |-> Field(buf, "created", NoTimestamp),
                asset |-> Field(buf, "asset", ""),
                counterAsset |-> Field(buf, "counterAsset", ""),
                amount |-> Field(buf, "amount", 0),
                price |-> Field(buf, "price", 0),
                state |-> Field(buf, "state", "OPEN") ] ]

\* proto.Marshal(wireMessage)
MarshalWire(m) ==
    Enc("channelID", m.channelID, "") \cup
    Enc("operation", m.operation, "CREATE") \cup
    Enc("data", m.data, EmptyBuf)

\* proto.Unmarshal(buf, &pb.WireMessage{})
UnmarshalWire(buf) ==
    [ err |-> Malformed(buf),
      val |-> [ channelID |-> Field(buf, "channelID", ""),
                operation |-> Field(buf, "operation", "CREATE"),
                data |-> Field(buf, "data", EmptyBuf) ] ]

\* ------------------------------------------------------------ order ids
\* hmac.New(sha256.New, secret) over the request's text and the timestamp's
\* text: a keyed digest, taken to be free of collisions.
Secret == "mysecret"
Hmac(secret, text) == <<"hmac", secret, text>>
OrderID(req, now) == Hmac(Secret, <<req, now>>)

OrderPrefix == "order:"
getOrderStorageKey(orderID) == <<OrderPrefix, orderID>>

\* The order Create constructs.
NewOrder(req, now) ==
    [ id |-> OrderID(req, now), created |-> now, asset |-> req.asset,
      counterAsset |-> req.counterAsset, amount |-> req.amount,
      price |-> req.price, state |-> "OPEN" ]

\* ---------------------------------------------------------------- storage
\* interfaces.Storage, a key-value store: a function from the keys that are
\* present to the bytes stored under them. ok = FALSE is a failed call, which
\* changes nothing.
Has(s, key) == key \in DOMAIN s
StoragePut(s, key, data, ok) ==
    IF ok THEN [k \in DOMAIN s \cup {key} |-> IF k = key THEN data ELSE s[k]]
    ELSE s
\* Deleting a key that is absent succeeds and changes nothing.
StorageDelete(s, key, ok) ==
    IF ok THEN [k \in DOMAIN s \ {key} |-> s[k]] ELSE s
\* Get fails on a key that is absent.
StorageGet(s, key) ==
    IF Has(s, key) THEN [err |-> FALSE, data |-> s[key]]
    ELSE [err |-> TRUE, data |-> EmptyBuf]
EmptyStore == <<>>

\* ------------------------------------------------------------------ state
VARIABLES
    clock,      \* clock[n]: the time of the last TimestampNow() on n, 0 at first
    svc,        \* svc[n]: which collaborators the OrderService of n holds
    store,      \* store[n]: the contents of n's Storage
    pending,    \* pending[n]: the messages of the Send goroutines blocked on
                \* p2p.input, in the order of the Send calls
    last,       \* the last call of the OrderService: what it did and returned
    running,    \* running[n]: Run() was called: host, pubsub and drain task exist
    host,       \* host[n]: where the transport of n is in its life: the state
                \* of p2p.host, how many hosts Run() has made (hosts), the
                \* startup steps the last Run() entered (steps), whether its
                \* libp2p.New failed (hostErr), the drain and peer-connect
                \* tasks started (drains, connects), how many readers had
                \* been started when Close() was called (atClose), and what
                \* ended the process, if something did (fault)
    Receiver,   \* Receiver[n]: the OrderService is registered with the P2p of n
    subscriptions, \* subscriptions[n][c]: the quitSignal the map of n holds for
                \* channel c (the index of the reader it was made for), 0 if none
    readers,    \* the reader tasks started so far, each with its subscription:
                \* the messages it buffers (queue), the origin of the
                \* message sub.Next returned last (peer), where the task is
                \* (state) and
                \* whether a sender waits on its quitSignal (quit)
    gossip,     \* gossip[n]: the published messages on their way to node n
    applied     \* applied[n][id]: the operations on order id that the readers
                \* of n handed to Receive and Receive carried out on the
                \* storage without error, and the last of them

service == <<clock, svc, store, pending, last>>
p2p == <<running, host, Receiver, subscriptions, readers, gossip, applied>>
vars == <<clock, svc, store, pending, last,
          running, host, Receiver, subscriptions, readers, gossip, applied>>

\* The startup steps of Run(), in the order Run() calls them.
StartupSteps ==
    <<"initContext", "initHost", "bootstrapDHT", "bootstrapNetwork",
      "startDiscovery", "initPubSub", "listenForInput", "connectToPeers">>
\* The steps after initHost that use p2p.host or the DHT made with it.
PanicSteps == {3, 4, 5, 6, 8}

\* The transport NewP2p returns: no host, no task.
NoHost == [state |-> "none", hosts |-> 0, steps |-> <<>>, hostErr |-> FALSE,
           drains |-> 0, connects |-> 0, atClose |-> 0, fault |-> ""]

\* The transport after a Run() on the transport h. initHost logs the error
\* of libp2p.New and returns nothing, and Run() goes on to the next steps:
\* with the host it made, through all of them; with the nil host a failed
\* libp2p.New left, up to the step (stop) that dereferences it and panics.
RunResult(h, hostOk, stop) ==
    [state |-> IF hostOk THEN "up" ELSE "crashed",
     hosts |-> h.hosts + (IF hostOk THEN 1 ELSE 0),
     steps |-> IF hostOk THEN StartupSteps ELSE SubSeq(StartupSteps, 1, stop),
     hostErr |-> ~hostOk,
     drains |-> IF hostOk THEN h.drains + 1 ELSE 0,
     connects |-> IF hostOk THEN h.connects + 1 ELSE 0,
     atClose |-> h.atClose,
     fault |-> IF hostOk THEN "" ELSE "nil host"]

\* The transport of a node on which Run() was called once and made its host.
FirstHost == RunResult(NoHost, TRUE, Len(StartupSteps))

\* with: the collaborators the service held when it was called; pre: the
\* store the call started from.
NoCall == [op |-> "none", node |-> "", arg |-> <<>>, err |-> FALSE,
           ret |-> <<>>, effects |-> <<>>, pre |-> EmptyStore,
           with |-> [Storage |-> FALSE, P2p |-> FALSE]]

Init ==
    /\ clock = [n \in Nodes |-> 0]
    /\ svc = [n \in Nodes |-> [Storage |-> FALSE, P2p |-> FALSE]]
    /\ store = [n \in Nodes |-> EmptyStore]
    /\ pending = [n \in Nodes |-> <<>>]
    /\ last = NoCall
    /\ running = [n \in Nodes |-> FALSE]
    /\ host = [n \in Nodes |-> NoHost]
    /\ Receiver = [n \in Nodes |-> FALSE]
    /\ subscriptions = [n \in Nodes |-> [c \in Channels |-> 0]]
    /\ readers = <<>>
    /\ gossip = [n \in Nodes |-> {}]
    /\ applied = [n \in Nodes |-> <<>>]

\* ----------------------------------------------------------- OrderService
RegisterStorage(n) ==
    /\ ~svc[n].Storage
    /\ svc' = [svc EXCEPT ![n].Storage = TRUE]
    /\ UNCHANGED <<clock, store, pending, last>>
    /\ UNCHANGED p2p

RegisterP2p(n) ==
    /\ ~svc[n].P2p
    /\ svc' = [svc EXCEPT ![n].P2p = TRUE]
    /\ UNCHANGED <<clock, store, pending, last>>
    /\ UNCHANGED p2p

\* P2p.Send(message): a goroutine is started that blocks on p2p.input until
\* the drain task takes its message. msgs is what one call of the service
\* hands to Send, in order (at most one message).
CanSend(n) == Len(pending[n]) < MaxPending
Send(n, msgs) == pending' = [pending EXCEPT ![n] = @ \o msgs]

\* What Create does with the storage s: the store it leaves, the error and
\* the order it returns, and the Put and Send it issues, in order.
CreateResultKeyOfRequest(s, hasP2p, req, now, putOk) ==
    LET order == NewOrder(req, now)
        orderInBytes == MarshalOrder(order)
        key == getOrderStorageKey(OrderID(req, NoTimestamp))
        wireMessage == [channelID |-> req.channelID, operation |-> "CREATE",
                        data |-> orderInBytes]
    IN  [ store |-> StoragePut(s, key, orderInBytes, putOk),
          err |-> ~putOk,
          ret |-> order,
          effects |-> <<<<"Put", key, orderInBytes, putOk>>>> \o
                      (IF hasP2p THEN <<<<"Send", wireMessage>>>> ELSE <<>>) ]
CreateResultSendsFirst(s, hasP2p, req, now, putOk) ==
    LET order == NewOrder(req, now)
        orderInBytes == MarshalOrder(order)
        key == getOrderStorageKey(order.id)
        wireMessage == [channelID |-> req.channelID, operation |-> "CREATE",
                        data |-> orderInBytes]
    IN  [ store |-> StoragePut(s, key, orderInBytes, putOk),
          err |-> ~putOk,
          ret |-> order,
          effects |-> (IF hasP2p THEN <<<<"Send", wireMessage>>>> ELSE <<>>)
                      \o <<<<"Put", key, orderInBytes, putOk>>>> ]
CreateResult(s, hasP2p, req, now, putOk) ==
    LET order == NewOrder(req, now)
        orderInBytes == MarshalOrder(order)
        key == getOrderStorageKey(order.id)
        wireMessage == [channelID |-> req.channelID, operation |-> "CREATE",
                        data |-> orderInBytes]
    IN  [ store |-> StoragePut(s, key, orderInBytes, putOk),
          err |-> ~putOk,
          ret |-> order,
          effects |-> <<<<"Put", key, orderInBytes, putOk>>>> \o
                      (IF hasP2p THEN <<<<"Send", wireMessage>>>> ELSE <<>>) ]

\* The messages among the effects of a call that were handed to Send.
Sends(effects) ==
    LET idx == {i \in 1..Len(effects) : effects[i][1] = "Send"}
        RECURSIVE Pick(_, _)
        Pick(i, acc) ==
            IF i > Len(effects) THEN acc
            ELSE Pick(i + 1, IF i \in idx THEN Append(acc, effects[i][2]) ELSE acc)
    IN  Pick(1, <<>>)

Call(n, op, arg, r) ==
    /\ store' = [store EXCEPT ![n] = r.store]
    /\ Send(n, Sends(r.effects))
    /\ last' = [op |-> op, node |-> n, arg |-> arg, err |-> r.err,
                ret |-> r.ret, effects |-> r.effects, pre |-> store[n],
                with |-> svc[n]]
    /\ UNCHANGED svc

\* ptypes.TimestampNow(): the clock has moved on since the last reading.
TimestampNow(n) == clock[n] + 1

\* Create calls s.Storage.Put unguarded: without a Storage the call panics.
Create(n, req, putOk) ==
    /\ svc[n].Storage
    /\ svc[n].P2p => CanSend(n)
    /\ TimestampNow(n) \in Times
    /\ clock' = [clock EXCEPT ![n] = TimestampNow(n)]
    /\ Call(n, "Create", <<req, TimestampNow(n)>>,
            CreateResult(store[n], svc[n].P2p, req, TimestampNow(n), putOk))
    /\ UNCHANGED p2p

\* The result of a call that touched nothing.
Untouched(s) == [store |-> s, err |-> FALSE, ret |-> <<>>, effects |-> <<>>]

\* Receive returns early, with the error, when the buffer does not decode
\* to a WireMessage or its data does not decode to an Order.
ReceiveRejectsWireOnly(buf) == UnmarshalWire(buf).err
ReceiveRejects(buf) ==
    \/ UnmarshalWire(buf).err
    \/ UnmarshalOrder(UnmarshalWire(buf).val.data).err

\* The switch on the operation: CREATE puts the data under the order's key,
\* DELETE deletes the key; LOCK and UNLOCK have no case and fall through.
ReceiveSwitchCreateRawKey(s, op, order, data, ok) ==
    IF op = "CREATE" THEN
        [ store |-> StoragePut(s, order.id, data, ok), err |-> ~ok,
          ret |-> <<>>, effects |-> <<<<"Put", order.id, data, ok>>>> ]
    ELSE IF op = "DELETE" THEN
        [ store |-> StorageDelete(s, getOrderStorageKey(order.id), ok),
          err |-> ~ok, ret |-> <<>>,
          effects |-> <<<<"Delete", getOrderStorageKey(order.id), ok>>>> ]
    ELSE Untouched(s)
ReceiveSwitchDeleteRawKey(s, op, order, data, ok) ==
    IF op = "CREATE" THEN
        [ store |-> StoragePut(s, getOrderStorageKey(order.id), data, ok),
          err |-> ~ok, ret |-> <<>>,
          effects |-> <<<<"Put", getOrderStorageKey(order.id), data, ok>>>> ]
    ELSE IF op = "DELETE" THEN
        [ store |-> StorageDelete(s, order.id, ok), err |-> ~ok,
          ret |-> <<>>, effects |-> <<<<"Delete", order.id, ok>>>> ]
    ELSE Untouched(s)
ReceiveSwitchDeleteStrict(s, op, order, data, ok) ==
    LET key == getOrderStorageKey(order.id)
    IN  IF op = "CREATE" THEN
            [ store |-> StoragePut(s, key, data, ok), err |-> ~ok,
              ret |-> <<>>, effects |-> <<<<"Put", key, data, ok>>>> ]
        ELSE IF op = "DELETE" THEN
            IF StorageGet(s, key).err
            THEN [Untouched(s) EXCEPT !.err = TRUE]
            ELSE [ store |-> StorageDelete(s, key, ok), err |-> ~ok,
                   ret |-> <<>>, effects |-> <<<<"Delete", key, ok>>>> ]
        ELSE Untouched(s)
ReceiveSwitchLockUpserts(s, op, order, data, ok) ==
    LET key == getOrderStorageKey(order.id)
    IN  IF op = "DELETE" THEN
            [ store |-> StorageDelete(s, key, ok), err |-> ~ok,
              ret |-> <<>>, effects |-> <<<<"Delete", key, ok>>>> ]
        ELSE [ store |-> StoragePut(s, key, data, ok), err |-> ~ok,
               ret |-> <<>>, effects |-> <<<<"Put", key, data, ok>>>> ]
ReceiveSwitch(s, op, order, data, ok) ==
    LET key == getOrderStorageKey(order.id)
    IN  IF op = "CREATE" THEN
            [ store |-> StoragePut(s, key, data, ok), err |-> ~ok,
              ret |-> <<>>, effects |-> <<<<"Put", key, data, ok>>>> ]
        ELSE IF op = "DELETE" THEN
            [ store |-> StorageDelete(s, key, ok), err |-> ~ok,
              ret |-> <<>>, effects |-> <<<<"Delete", key, ok>>>> ]
        ELSE Untouched(s)

\* What Receive does with the storage s on the buffer buf: the store it
\* leaves, the error it returns and the Put or Delete it issues.
ReceiveResult(s, hasStorage, buf, ok) ==
    LET wire == UnmarshalWire(buf).val
        order == UnmarshalOrder(wire.data).val
    IN  IF ReceiveRejects(buf) THEN [Untouched(s) EXCEPT !.err = TRUE]
        ELSE IF ~hasStorage THEN Untouched(s)
        ELSE ReceiveSwitch(s, wire.operation, order, wire.data, ok)

Receive(n, buf, ok) ==
    /\ Call(n, "Receive", buf, ReceiveResult(store[n], svc[n].Storage, buf, ok))
    /\ UNCHANGED clock

\* GetOrder: the error of the Get, else the stored bytes decoded (a decoding
\* error is dropped and the order is returned as far as it was filled).
GetOrder(s, orderID) ==
    LET got == StorageGet(s, getOrderStorageKey(orderID))
    IN  IF got.err THEN [err |-> TRUE, order |-> <<>>]
        ELSE [err |-> FALSE, order |-> UnmarshalOrder(got.data).val]

\* What Delete does: an absent order is an error and nothing else happens;
\* otherwise the stored bytes are broadcast and then the key is removed.
DeleteResultSendsUnread(s, hasP2p, req, delOk) ==
    LET key == getOrderStorageKey(req.orderID)
        got == StorageGet(s, key)
        wireMessage == [channelID |-> req.channelID, operation |-> "DELETE",
                        data |-> got.data]
    IN  [ store |-> IF got.err THEN s ELSE StorageDelete(s, key, delOk),
          err |-> got.err \/ ~delOk,
          ret |-> <<>>,
          effects |-> (IF hasP2p THEN <<<<"Send", wireMessage>>>> ELSE <<>>)
                      \o (IF got.err THEN <<>> ELSE <<<<"Delete", key, delOk>>>>) ]
DeleteResultRemovesFirst(s, hasP2p, req, delOk) ==
    LET key == getOrderStorageKey(req.orderID)
        got == StorageGet(s, key)
        wireMessage == [channelID |-> req.channelID, operation |-> "DELETE",
                        data |-> got.data]
    IN  IF got.err
        THEN [store |-> s, err |-> TRUE, ret |-> <<>>, effects |-> <<>>]
        ELSE [ store |-> StorageDelete(s, key, delOk),
               err |-> ~delOk,
               ret |-> <<>>,
               effects |-> <<<<"Delete", key, delOk>>>> \o
                   (IF hasP2p /\ delOk THEN <<<<"Send", wireMessage>>>> ELSE <<>>) ]
DeleteResult(s, hasP2p, req, delOk) ==
    LET key == getOrderStorageKey(req.orderID)
        got == StorageGet(s, key)
        wireMessage == [channelID |-> req.channelID, operation |-> "DELETE",
                        data |-> got.data]
    IN  IF got.err
        THEN [store |-> s, err |-> TRUE, ret |-> <<>>, effects |-> <<>>]
        ELSE [ store |-> StorageDelete(s, key, delOk),
               err |-> ~delOk,
               ret |-> <<>>,
               effects |-> (IF hasP2p THEN <<<<"Send", wireMessage>>>> ELSE <<>>)
                           \o <<<<"Delete", key, delOk>>>> ]

Delete(n, req, delOk) ==
    /\ svc[n].Storage
    /\ (svc[n].P2p /\ Has(store[n], getOrderStorageKey(req.orderID))) => CanSend(n)
    /\ Call(n, "Delete", req, DeleteResult(store[n], svc[n].P2p, req, delOk))
    /\ UNCHANGED <<clock, p2p>>

\* Lock and Unlock are stubs: they touch neither the storage nor the
\* transport and return no error.
LockResult(s, req) ==
    [store |-> s, err |-> FALSE, ret |-> <<>>, effects |-> <<>>]
UnlockResult(s, req) ==
    [store |-> s, err |-> FALSE, ret |-> <<>>, effects |-> <<>>]

Lock(n, req) ==
    /\ Call(n, "Lock", req, LockResult(store[n], req))
    /\ UNCHANGED <<clock, p2p>>
Unlock(n, req) ==
    /\ Call(n, "Unlock", req, UnlockResult(store[n], req))
    /\ UNCHANGED <<clock, p2p>>

\* --------------------------------------------------------------- inputs
\* The orders Create can construct; no operation of the service makes an
\* order LOCKED, so no peer ever sends one.
Orders ==
    { NewOrder(req, now) : req \in Requests, now \in Times }
OrderIDs == {o.id : o \in Orders}
OrderRequests == [orderID : OrderIDs, channelID : Channels]

\* The buffers handed to Receive: every operation on every order, and the
\* buffers that do not decode or decode to zero values.
DataBufs == {MarshalOrder(o) : o \in Orders} \cup {Garbage, EmptyBuf}
WireMessages == [channelID : Channels, operation : Operations, data : DataBufs]
Buffers == {MarshalWire(m) : m \in WireMessages} \cup {Garbage}

\* --------------------------------------------------------------- identity
\* The two fixed keys the keypair is stored under.
privateKeyDbKey == <<"private_key">>
publicKeyDbKey == <<"public_key">>

Seeds == 1..MaxSeeds
\* The nil key.
NoKey == <<"nil", 0>>
GetPublic(privateKey) == <<"pub", privateKey[2]>>
\* GenerateKeyPair(reader): crypto.GenerateEd25519Key on what the reader
\* yields; it fails when the reader does.
GenerateKeyPair(seed, genOk) ==
    IF genOk
    THEN [privateKey |-> <<"priv", seed>>,
          publicKey |-> GetPublic(<<"priv", seed>>), err |-> FALSE]
    ELSE [privateKey |-> NoKey, publicKey |-> NoKey, err |-> TRUE]

\* crypto.MarshalPrivateKey and crypto.MarshalPublicKey: the key's type and
\* its raw bytes, as a protobuf message; the decoders reject a buffer that
\* does not decode and data that is not a key of the kind asked for.
MarshalKey(key) == {<<"Type", "Ed25519">>, <<"Data", key>>}
UnmarshalKey(buf, kind) ==
    IF \/ Malformed(buf)
       \/ Field(buf, "Type", "RSA") # "Ed25519"
       \/ Field(buf, "Data", NoKey)[1] # kind
    THEN [err |-> TRUE, key |-> NoKey]
    ELSE [err |-> FALSE, key |-> Field(buf, "Data", NoKey)]

\* storeKeyPair: Put of the private key, then Put of the public key; it
\* returns at the first Put that fails.
storeKeyPair(s, privateKey, publicKey, ok1, ok2) ==
    LET privateKeyBytes == MarshalKey(privateKey)
        publicKeyBytes == MarshalKey(publicKey)
        put1 == <<"Put", privateKeyDbKey, privateKeyBytes, ok1>>
        put2 == <<"Put", publicKeyDbKey, publicKeyBytes, ok2>>
        s1 == StoragePut(s, privateKeyDbKey, privateKeyBytes, ok1)
    IN  IF ~ok1 THEN [store |-> s1, err |-> TRUE, effects |-> <<put1>>]
        ELSE [store |-> StoragePut(s1, publicKeyDbKey, publicKeyBytes, ok2),
              err |-> ~ok2, effects |-> <<put1, put2>>]

\* getKeyPair: both keys are read and decoded; any error gives nil keys.
getKeyPair(s) ==
    LET privateKeyBytes == StorageGet(s, privateKeyDbKey)
        publicKeyBytes == StorageGet(s, publicKeyDbKey)
        privateKey == UnmarshalKey(privateKeyBytes.data, "priv")
        publicKey == UnmarshalKey(publicKeyBytes.data, "pub")
    IN  IF \/ privateKeyBytes.err \/ publicKeyBytes.err
           \/ privateKey.err \/ publicKey.err
        THEN [privateKey |-> NoKey, publicKey |-> NoKey, err |-> TRUE]
        ELSE [privateKey |-> privateKey.key, publicKey |-> publicKey.key,
              err |-> FALSE]

\* GetIdentity(storage): the stored keypair when there is one; otherwise a
\* new one, which is stored. err: the error of the generation or of the
\* storing; the error of the reading is returned beside the keys.
GetIdentityResultRegenerates(s, seed, genOk, ok1, ok2) ==
    LET got == getKeyPair(s)
        gen == GenerateKeyPair(seed, genOk)
        keys(k) == [privateKey |-> k.privateKey, publicKey |-> k.publicKey,
                    err_storage |-> got.err]
        generated == <<"Generate", seed, genOk>>
    IN  IF gen.err
        THEN [store |-> s, err |-> TRUE, ret |-> keys(gen),
              effects |-> <<generated>>]
        ELSE LET stored == storeKeyPair(s, gen.privateKey, gen.publicKey,
                                        ok1, ok2)
             IN  [store |-> stored.store, err |-> stored.err,
                  ret |-> keys(gen),
                  effects |-> <<generated>> \o stored.effects]
GetIdentityResult(s, seed, genOk, ok1, ok2) ==
    LET got == getKeyPair(s)
        gen == GenerateKeyPair(seed, genOk)
        keys(k) == [privateKey |-> k.privateKey, publicKey |-> k.publicKey,
                    err_storage |-> got.err]
        generated == <<"Generate", seed, genOk>>
    IN  IF got.privateKey = NoKey \/ got.publicKey = NoKey
        THEN IF gen.err
             THEN [store |-> s, err |-> TRUE, ret |-> keys(gen),
                   effects |-> <<generated>>]
             ELSE LET stored == storeKeyPair(s, gen.privateKey, gen.publicKey,
                                             ok1, ok2)
                  IN  [store |-> stored.store, err |-> stored.err,
                       ret |-> keys(gen),
                       effects |-> <<generated>> \o stored.effects]
        ELSE [store |-> s, err |-> FALSE, ret |-> keys(got), effects |-> <<>>]

GetIdentity(n, seed, genOk, ok1, ok2) ==
    /\ Call(n, "GetIdentity", <<>>,
            GetIdentityResult(store[n], seed, genOk, ok1, ok2))
    /\ UNCHANGED <<clock, p2p>>

\* ------------------------------------------------ the service of one node
\* The OrderService of node A, called through its API and fed buffers
\* directly, as the transport's reader tasks do.
Local == "A"

Next ==
    \/ RegisterStorage(Local)
    \/ RegisterP2p(Local)
    \/ \E req \in Requests, putOk \in BOOLEAN : Create(Local, req, putOk)
    \/ \E req \in OrderRequests, delOk \in BOOLEAN : Delete(Local, req, delOk)
    \/ \E req \in OrderRequests : Lock(Local, req)
    \/ \E req \in OrderRequests : Unlock(Local, req)
    \/ \E buf \in Buffers, ok \in BOOLEAN :
           Receive(Local, buf, ok) /\ UNCHANGED p2p

Spec == Init /\ [][Next]_vars

\* The storage of node A, holding the identity of the node and its orders.
IdentityNext ==
    \/ RegisterStorage(Local)
    \/ \E seed \in Seeds, genOk \in BOOLEAN, ok1 \in BOOLEAN, ok2 \in BOOLEAN :
           GetIdentity(Local, seed, genOk, ok1, ok2)
    \/ \E req \in Requests, putOk \in BOOLEAN : Create(Local, req, putOk)
    \/ \E req \in OrderRequests, delOk \in BOOLEAN : Delete(Local, req, delOk)

IdentitySpec == Init /\ [][IdentityNext]_vars

\* -------------------------------------------------------------------- P2p
\* The readers after the process of node n is gone: those that were in
\* their loop are dead.
Killed(rds, n) ==
    [r \in 1..Len(rds) |->
        IF rds[r].node = n
        THEN [rds[r] EXCEPT !.state = IF @ = "running" THEN "dead" ELSE "exited",
                            !.quit = FALSE, !.queue = <<>>]
        ELSE rds[r]]

\* A panic no one recovers ends the process of node n: its tasks, queues and
\* registrations go with it; what its storage holds stays. h: what is left
\* of the transport.
Abort(n, h) ==
    /\ readers' = Killed(readers, n)
    /\ host' = [host EXCEPT ![n] = h]
    /\ running' = [running EXCEPT ![n] = FALSE]
    /\ Receiver' = [Receiver EXCEPT ![n] = FALSE]
    /\ subscriptions' = [subscriptions EXCEPT ![n] = [ch \in Channels |-> 0]]
    /\ svc' = [svc EXCEPT ![n] = [Storage |-> FALSE, P2p |-> FALSE]]
    /\ pending' = [pending EXCEPT ![n] = <<>>]
    /\ UNCHANGED <<clock, store, last, gossip, applied>>
Crashed(h, why) ==
    [h EXCEPT !.state = "crashed", !.drains = 0, !.connects = 0, !.fault = why]

\* Run(): the startup steps, one after the other, whatever the transport
\* was before: nothing in it asks whether Run() has been called already, and
\* no step looks at the outcome of the one before. A second Run() makes a
\* new host and a new pubsub (the old ones are left as they are) and starts
\* one more drain task and one more peer-connect task.
Run(n, hostOk, stop) ==
    /\ host[n].state # "crashed"
    /\ host[n].hosts < MaxHosts
    /\ stop \in PanicSteps
    /\ IF hostOk
       THEN /\ host' = [host EXCEPT ![n] = RunResult(@, TRUE, stop)]
            /\ running' = [running EXCEPT ![n] = TRUE]
            /\ UNCHANGED <<service, Receiver, subscriptions, readers, gossip,
                           applied>>
       ELSE Abort(n, RunResult(host[n], FALSE, stop))

\* Close(): p2p.host.Close() and nothing else: the context (the background
\* context, which cannot be cancelled), the pubsub, the subscriptions, the
\* readers and the drain task are left as they are.
Close(n) ==
    /\ host[n].state = "up"
    /\ host' = [host EXCEPT ![n] =
                   [@ EXCEPT !.state = "closed", !.atClose = Len(readers)]]
    /\ UNCHANGED <<service, running, Receiver, subscriptions, readers, gossip,
                   applied>>

AddReceiver(n) ==
    /\ ~Receiver[n]
    /\ Receiver' = [Receiver EXCEPT ![n] = TRUE]
    /\ UNCHANGED <<service, running, host, subscriptions, readers, gossip,
                   applied>>

\* The readers of node n that are reading topic (a reader whose join failed
\* has no subscription to read).
ReadersOf(n, topic) ==
    {r \in 1..Len(readers) :
        /\ readers[r].node = n
        /\ readers[r].channel = topic
        /\ readers[r].state = "running"
        /\ readers[r].sub}
\* Those of them whose subscription is on the pubsub p2p.ps holds now.
LocalReaders(n, topic) ==
    {r \in ReadersOf(n, topic) : readers[r].ps = host[n].hosts}

\* The readers with msg appended to the buffer of each subscription in rs.
Enqueue(rds, rs, msg) ==
    [r \in 1..Len(rds) |->
        IF r \in rs THEN [rds[r] EXCEPT !.queue = Append(@, msg)] ELSE rds[r]]
HasRoom(rs) == \A r \in rs : Len(readers[r].queue) < MaxQueue

\* peer of a reader before sub.Next has returned for the first time.
NoPeer == ""

\* Subscribe(channel): joins the topic, makes a quitSignal, puts it in the
\* map under the channel id (over what was there) and starts a reader task.
\* When the join fails (joinOk is false) the error is logged and the rest
\* is done all the same, the reader holding a nil subscription (sub).
Subscribe(n, c, joinOk) ==
    /\ running[n]
    /\ Len(readers) < MaxReaders
    /\ readers' = Append(readers, [node |-> n, channel |-> c, queue |-> <<>>,
                                   state |-> "running", quit |-> FALSE,
                                   peer |-> NoPeer, sub |-> joinOk,
                                   ps |-> host[n].hosts])
    /\ subscriptions' = [subscriptions EXCEPT ![n][c] = Len(readers) + 1]
    /\ UNCHANGED <<service, running, host, Receiver, gossip, applied>>

\* Unsubscribe(channel): sends true on the quitSignal the map holds for the
\* channel, and blocks until its reader takes it. quit: a sender is blocked
\* on the reader's quitSignal (one at a time).
Unsubscribe(n, c) ==
    LET sig == subscriptions[n][c]
    IN  /\ sig # 0
        /\ ~readers[sig].quit
        /\ readers' = [readers EXCEPT ![sig].quit = TRUE]
        /\ UNCHANGED <<service, running, host, Receiver, subscriptions, gossip,
                       applied>>

\* The drain task takes the message of one of the blocked Send goroutines
\* (whichever the scheduler lets through) and handleInput publishes its
\* encoding on the topic named by its channel id: the subscriptions of this
\* node get it at once, the other nodes through the gossip.
ListenForInput(n, i) ==
    /\ running[n]
    /\ i \in 1..Len(pending[n])
    /\ LET message == pending[n][i]
           buf == MarshalWire(message)
           topic == message.channelID
           msg == [from |-> n, topic |-> topic, data |-> buf]
       IN  /\ HasRoom(LocalReaders(n, topic))
           /\ readers' = Enqueue(readers, LocalReaders(n, topic), msg)
           /\ gossip' = [m \in Nodes |->
                  IF m = n \/ host[n].state # "up" THEN gossip[m]
                  ELSE gossip[m] \cup {msg}]
    /\ pending' = [pending EXCEPT ![n] =
           [j \in 1..(Len(@) - 1) |-> IF j < i THEN @[j] ELSE @[j + 1]]]
    /\ UNCHANGED <<clock, svc, store, last, running, host, Receiver,
                   subscriptions, applied>>

\* The gossip hands a message to node m: every subscription m has on the
\* topic buffers it; a node with none drops it.
Deliver(m, msg) ==
    /\ msg \in gossip[m]
    /\ host[m].state # "closed"
    /\ HasRoom(ReadersOf(m, msg.topic))
    /\ readers' = Enqueue(readers, ReadersOf(m, msg.topic), msg)
    /\ gossip' = [gossip EXCEPT ![m] = @ \ {msg}]
    /\ UNCHANGED <<service, running, host, Receiver, subscriptions, applied>>

\* applied[n] after Receive returned r for the buffer buf.
Record(log, buf, r) ==
    IF r.err \/ r.effects = <<>> THEN log
    ELSE LET op == UnmarshalWire(buf).val.operation
             id == UnmarshalOrder(UnmarshalWire(buf).val.data).val.id
             ops == IF id \in DOMAIN log THEN log[id].ops ELSE {}
         IN  [i \in DOMAIN log \cup {id} |->
                 IF i = id THEN [ops |-> ops \cup {op}, lastOp |-> op]
                 ELSE log[i]]

\* The reader hands on the messages whose origin is not this host.
FromSelf(n, msg) == msg.from = n
FromAnyone(n, msg) == TRUE
FromPeer(n, msg) == msg.from # n

\* One turn of the loop of reader r: sub.Next returns the next message; if it
\* is from another peer and a receiver is registered, Receive is called on
\* its data; then the quitSignal is polled, and if a sender is waiting its
\* value is taken (the Unsubscribe that sent it returns) and the reader
\* leaves the loop.
ReaderStepStopsOnError(r, ok) ==
    /\ r \in 1..Len(readers)
    /\ readers[r].state = "running"
    /\ readers[r].queue # <<>>
    /\ LET n == readers[r].node
           msg == Head(readers[r].queue)
           failed == /\ FromPeer(n, msg) /\ Receiver[n]
                     /\ ReceiveResult(store[n], svc[n].Storage, msg.data, ok).err
       IN  /\ IF FromPeer(n, msg) /\ Receiver[n]
              THEN /\ Receive(n, msg.data, ok)
                   /\ applied' = [applied EXCEPT ![n] = Record(@, msg.data,
                          ReceiveResult(store[n], svc[n].Storage, msg.data, ok))]
              ELSE UNCHANGED <<service, applied>>
           /\ IF failed
              THEN readers' = [readers EXCEPT ![r] =
                       [@ EXCEPT !.state = "exited", !.queue = <<>>,
                                 !.peer = msg.from]]
              ELSE IF readers[r].quit
              THEN readers' = [readers EXCEPT ![r] =
                       [@ EXCEPT !.state = "quitting", !.quit = FALSE,
                                 !.queue = <<>>, !.peer = msg.from]]
              ELSE readers' = [readers EXCEPT ![r] =
                       [@ EXCEPT !.queue = Tail(@), !.peer = msg.from]]
    /\ UNCHANGED <<running, host, Receiver, subscriptions, gossip>>
ReaderStep(r, ok) ==
    /\ r \in 1..Len(readers)
    /\ readers[r].state = "running"
    /\ readers[r].queue # <<>>
    /\ LET n == readers[r].node
           msg == Head(readers[r].queue)
       IN  /\ IF FromPeer(n, msg) /\ Receiver[n]
              THEN /\ Receive(n, msg.data, ok)
                   /\ applied' = [applied EXCEPT ![n] = Record(@, msg.data,
                          ReceiveResult(store[n], svc[n].Storage, msg.data, ok))]
              ELSE UNCHANGED <<service, applied>>
           /\ IF readers[r].quit
              THEN readers' = [readers EXCEPT ![r] =
                       [@ EXCEPT !.state = "quitting", !.quit = FALSE,
                                 !.queue = <<>>, !.peer = msg.from]]
              ELSE readers' = [readers EXCEPT ![r] =
                       [@ EXCEPT !.queue = Tail(@), !.peer = msg.from]]
    /\ UNCHANGED <<running, host, Receiver, subscriptions, gossip>>

\* The reader that took the quit signal deletes the channel's entry from the
\* map, whatever quitSignal the entry holds by now, and returns.
ReaderExit(r) ==
    /\ r \in 1..Len(readers)
    /\ readers[r].state = "quitting"
    /\ subscriptions' = [subscriptions EXCEPT
           ![readers[r].node][readers[r].channel] = 0]
    /\ readers' = [readers EXCEPT ![r].state = "exited"]
    /\ UNCHANGED <<service, running, host, Receiver, gossip, applied>>

\* The reader of a failed join calls sub.Next on the nil subscription: the
\* dereference panics.
ReaderNilSub(r) ==
    /\ r \in 1..Len(readers)
    /\ readers[r].state = "running"
    /\ ~readers[r].sub
    /\ Abort(readers[r].node,
             Crashed(host[readers[r].node], "nil subscription"))

\* The readers of node n that took their quit signal and have their delete
\* from the map still to do.
Quitting(n) ==
    {r \in 1..Len(readers) :
        readers[r].node = n /\ readers[r].state = "quitting"}

\* The map of subscriptions is a plain Go map that no lock guards. While a
\* reader has its delete to do, a caller's Subscribe (a write), a caller's
\* Unsubscribe (a read) or another reader's delete can run at the same time
\* as it: the interleavings apart, the runtime can detect the concurrent
\* access and abort the process ("fatal error: concurrent map writes").
TableAccesses == {"Subscribe", "Unsubscribe", "delete"}
\* The process of node n is gone: its tasks, queues and registrations with
\* it; what its storage holds stays. The readers that were in their loop
\* are dead, and a Subscribe that was under way has started no reader
\* (recorded as a reader that never ran).
TableFault(n, c, access) ==
    /\ running[n]
    /\ Quitting(n) # {}
    /\ CASE access = "Subscribe" -> Len(readers) < MaxReaders
         [] access = "Unsubscribe" ->
                subscriptions[n][c] # 0 /\ ~readers[subscriptions[n][c]].quit
         [] access = "delete" ->
                \E r \in Quitting(n) :
                    readers[r].channel = c /\ Quitting(n) # {r}
    /\ LET dead == Killed(readers, n)
       IN  readers' = IF access = "Subscribe"
                      THEN Append(dead, [node |-> n, channel |-> c,
                                         queue |-> <<>>, state |-> "dead",
                                         quit |-> FALSE, peer |-> NoPeer,
                                         sub |-> TRUE, ps |-> host[n].hosts])
                      ELSE dead
    /\ host' = [host EXCEPT ![n] = Crashed(@, "concurrent map access")]
    /\ running' = [running EXCEPT ![n] = FALSE]
    /\ Receiver' = [Receiver EXCEPT ![n] = FALSE]
    /\ subscriptions' = [subscriptions EXCEPT ![n] = [ch \in Channels |-> 0]]
    /\ svc' = [svc EXCEPT ![n] = [Storage |-> FALSE, P2p |-> FALSE]]
    /\ pending' = [pending EXCEPT ![n] = <<>>]
    /\ UNCHANGED <<clock, store, last, gossip, applied>>

\* ------------------------------------------------------------ the network
\* Two wired nodes: each OrderService holds its Storage and its P2p and is
\* the receiver of its P2p, and Run() was called. Node A is the one writer of
\* orders, with the request of the end-to-end scenario.
Writer == "A"
Replica == "B"
NetRequests == {req \in Requests : req.channelID = "c1"}
\* The writer deletes an order on the channel it created it on.
NetOrderRequests ==
    [orderID : {OrderID(req, now) : req \in NetRequests, now \in Times},
     channelID : {req.channelID : req \in NetRequests}]

NetInit ==
    /\ clock = [n \in Nodes |-> 0]
    /\ svc = [n \in Nodes |-> [Storage |-> TRUE, P2p |-> TRUE]]
    /\ store = [n \in Nodes |-> EmptyStore]
    /\ pending = [n \in Nodes |-> <<>>]
    /\ last = NoCall
    /\ running = [n \in Nodes |-> TRUE]
    /\ host = [n \in Nodes |-> FirstHost]
    /\ Receiver = [n \in Nodes |-> TRUE]
    /\ subscriptions = [n \in Nodes |-> [c \in Channels |-> 0]]
    /\ readers = <<>>
    /\ gossip = [n \in Nodes |-> {}]
    /\ applied = [n \in Nodes |-> <<>>]

NetNext ==
    \/ \E c \in Channels : Subscribe(Replica, c, TRUE)
    \/ \E n \in Nodes, c \in Channels : Unsubscribe(n, c)
    \/ \E req \in NetRequests, putOk \in BOOLEAN : Create(Writer, req, putOk)
    \/ \E req \in NetOrderRequests, delOk \in BOOLEAN :
           Delete(Writer, req, delOk)
    \/ \E n \in Nodes, i \in 1..MaxPending + 1 : ListenForInput(n, i)
    \/ \E m \in Nodes : \E msg \in gossip[m] : Deliver(m, msg)
    \/ \E r \in 1..MaxReaders + 1, ok \in BOOLEAN : ReaderStep(r, ok)
    \/ \E r \in 1..MaxReaders + 1 : ReaderExit(r)
    \/ \E n \in Nodes, c \in Channels, access \in TableAccesses :
           TableFault(n, c, access)

NetSpec == NetInit /\ [][NetNext]_vars

\* The network in which the writer subscribes as well: the pubsub hands a
\* node's own messages to its subscriptions.
SubNext ==
    \/ NetNext
    \/ \E c \in Channels : Subscribe(Writer, c, TRUE)

SubSpec == NetInit /\ [][SubNext]_vars

\* The life of one transport: node A wired as in the network, its Run()
\* still to be called. It publishes what its own Create hands to Send, and
\* its readers read it back from the pubsub.
HostInit ==
    /\ clock = [n \in Nodes |-> 0]
    /\ svc = [n \in Nodes |-> [Storage |-> TRUE, P2p |-> TRUE]]
    /\ store = [n \in Nodes |-> EmptyStore]
    /\ pending = [n \in Nodes |-> <<>>]
    /\ last = NoCall
    /\ running = [n \in Nodes |-> FALSE]
    /\ host = [n \in Nodes |-> NoHost]
    /\ Receiver = [n \in Nodes |-> TRUE]
    /\ subscriptions = [n \in Nodes |-> [c \in Channels |-> 0]]
    /\ readers = <<>>
    /\ gossip = [n \in Nodes |-> {}]
    /\ applied = [n \in Nodes |-> <<>>]

HostNext ==
    \/ \E hostOk \in BOOLEAN, stop \in PanicSteps : Run(Writer, hostOk, stop)
    \/ Close(Writer)
    \/ \E c \in Channels, joinOk \in BOOLEAN : Subscribe(Writer, c, joinOk)
    \/ \E c \in Channels : Unsubscribe(Writer, c)
    \/ \E req \in NetRequests, putOk \in BOOLEAN : Create(Writer, req, putOk)
    \/ \E i \in 1..MaxPending + 1 : ListenForInput(Writer, i)
    \/ \E r \in 1..MaxReaders + 1, ok \in BOOLEAN : ReaderStep(r, ok)
    \/ \E r \in 1..MaxReaders + 1 : ReaderExit(r)
    \/ \E r \in 1..MaxReaders + 1 : ReaderNilSub(r)
    \/ \E c \in Channels, access \in TableAccesses :
           TableFault(Writer, c, access)

\* The scheduling the Go runtime is taken to give the tasks of the node: a
\* Send goroutine gets through to the drain task, and a reader that can
\* take a step takes it. Nothing makes a parked sub.Next return.
HostSpec ==
    /\ HostInit /\ [][HostNext]_vars
    /\ \A i \in 1..MaxPending + 1 : WF_vars(ListenForInput(Writer, i))
    /\ \A r \in 1..MaxReaders + 1 : WF_vars(\E ok \in BOOLEAN : ReaderStep(r, ok))
    /\ \A r \in 1..MaxReaders + 1 : WF_vars(ReaderExit(r))
    /\ \A r \in 1..MaxReaders + 1 : WF_vars(ReaderNilSub(r))

\* The wire messages the writer's Create and Delete can hand to Send, as the
\* gossip carries them.
NetOrders == {NewOrder(req, now) : req \in NetRequests, now \in Times}
NetMessages ==
    { [from |-> Writer, topic |-> c,
       data |-> MarshalWire([channelID |-> c, operation |-> op,
                             data |-> MarshalOrder(o)])] :
        c \in Channels, op \in {"CREATE", "DELETE"}, o \in Orders }

\* The end-to-end create: the network in which the writer only creates.
CreateNext ==
    \/ \E c \in Channels : Subscribe(Replica, c, TRUE)
    \/ \E n \in Nodes, c \in Channels : Unsubscribe(n, c)
    \/ \E req \in Requests, putOk \in BOOLEAN : Create(Writer, req, putOk)
    \/ \E n \in Nodes, i \in 1..MaxPending + 1 : ListenForInput(n, i)
    \/ \E m \in Nodes : \E msg \in gossip[m] : Deliver(m, msg)
    \/ \E r \in 1..MaxReaders + 1, ok \in BOOLEAN : ReaderStep(r, ok)
    \/ \E r \in 1..MaxReaders + 1 : ReaderExit(r)
    \/ \E n \in Nodes, c \in Channels, access \in TableAccesses :
           TableFault(n, c, access)

\* The scheduling the Go runtime and the gossip are taken to give: a Send
\* goroutine blocked on p2p.input gets through to the drain task, a reader
\* whose subscription holds a message takes its turn, and a published
\* message reaches a peer's subscriptions (strong fairness: a subscription
\* whose buffer is full again and again does not keep a message out for
\* ever).
FairCreateSpec ==
    /\ NetInit /\ [][CreateNext]_vars
    /\ \A i \in 1..MaxPending + 1 : WF_vars(ListenForInput(Writer, i))
    /\ \A msg \in NetMessages : SF_vars(Deliver(Replica, msg))
    /\ \A r \in 1..MaxReaders + 1 : WF_vars(\E ok \in BOOLEAN : ReaderStep(r, ok))
    /\ \A r \in 1..MaxReaders + 1 : WF_vars(ReaderExit(r))

\* ================================================================ claims
\* What the last call was about.
LastReceive == last.op = "Receive"
LastWire == UnmarshalWire(last.arg)
LastData == LastWire.val.data
LastOrder == UnmarshalOrder(LastData)
LastKey == getOrderStorageKey(LastOrder.val.id)
\* The last call was Receive of a buffer that decodes, with data that decodes
\* to an order, carrying the operation op, on a service that has a Storage.
LastReceiveOf(op) ==
    /\ LastReceive
    /\ last.with.Storage
    /\ ~LastWire.err
    /\ ~LastOrder.err
    /\ LastWire.val.operation = op
\* A Put or Delete the last call issued failed in the storage.
StorageFailed ==
    \E i \in 1..Len(last.effects) :
        \/ last.effects[i][1] = "Put" /\ ~last.effects[i][4]
        \/ last.effects[i][1] = "Delete" /\ ~last.effects[i][3]
\* Every key but key holds in s what it holds in t.
SameBut(s, t, key) ==
    \A k \in (DOMAIN s \cup DOMAIN t) \ {key} :
        /\ Has(s, k) <=> Has(t, k)
        /\ Has(s, k) => s[k] = t[k]

\* The number of times a message is replayed against Receive.
MaxReplay == 3
RECURSIVE ReceiveTimes(_, _, _, _)
ReceiveTimes(s, buf, oks, n) ==
    IF n = 0 THEN s
    ELSE ReceiveTimes(ReceiveResult(s, TRUE, buf, oks[n]).store, buf, oks, n - 1)
\* Replaying buf against the store s up to MaxReplay more times, whether or
\* not the storage fails on a replay, leaves s as it is.
ReplayKeeps(s, buf) ==
    \A n \in 1..MaxReplay : \A oks \in [1..n -> BOOLEAN] :
        ReceiveTimes(s, buf, oks, n) = s

\* C3: once Receive has applied a well-formed CREATE message, the store holds
\* the message's data under the order's key, no other key has changed, and
\* applying the same message any further number of times leaves the store in
\* exactly that state.
C3_ReceiveCreateIdempotent ==
    (LastReceiveOf("CREATE") /\ ~last.err) =>
        /\ Has(store[last.node], LastKey)
        /\ store[last.node][LastKey] = LastData
        /\ SameBut(store[last.node], last.pre, LastKey)
        /\ ReplayKeeps(store[last.node], last.arg)
\* A CREATE was replayed on a store that already held the order and another.
C3_Witness ==
    /\ LastReceiveOf("CREATE") /\ ~last.err
    /\ Has(last.pre, LastKey)
    /\ Cardinality(DOMAIN store[last.node]) >= 2

\* C4: Receive of a DELETE message whose order has no entry in the store
\* returns no error (the storage not failing) and leaves the store as it
\* was; and after any DELETE that was applied, replaying it changes nothing.
C4_ReceiveDeleteAbsent ==
    /\ (LastReceiveOf("DELETE") /\ ~Has(last.pre, LastKey) /\ ~StorageFailed) =>
           ~last.err /\ store[last.node] = last.pre
    /\ (LastReceiveOf("DELETE") /\ ~last.err) =>
           /\ ~Has(store[last.node], LastKey)
           /\ ReplayKeeps(store[last.node], last.arg)
\* A DELETE arrived for an order the store does not hold, beside one it holds.
C4_Witness ==
    /\ LastReceiveOf("DELETE") /\ ~Has(last.pre, LastKey) /\ ~StorageFailed
    /\ DOMAIN last.pre # {}

\* C5: Receive of a LOCK or UNLOCK message for an order that is absent from
\* the store creates no entry, leaves every key of the store as it was, and
\* returns no error.
C5_ReceiveLockAbsent ==
    ((LastReceiveOf("LOCK") \/ LastReceiveOf("UNLOCK")) /\ ~Has(last.pre, LastKey)) =>
        /\ store[last.node] = last.pre
        /\ ~Has(store[last.node], LastKey)
        /\ ~last.err
C5_Witness ==
    /\ LastReceiveOf("LOCK") /\ ~Has(last.pre, LastKey)
    /\ LastOrder.val.id \in OrderIDs
    /\ DOMAIN last.pre # {}

\* The order stored under id in s.
Stored(s, id) == GetOrder(s, id).order
\* C6: after Receive of a LOCK (UNLOCK) message for an order the store holds,
\* the stored order is LOCKED (OPEN) and its other fields are what they were.
C6_ReceiveLockSetsState ==
    \A op \in {"LOCK", "UNLOCK"} :
        (LastReceiveOf(op) /\ Has(last.pre, LastKey) /\ ~StorageFailed) =>
            /\ Has(store[last.node], LastKey)
            /\ Stored(store[last.node], LastOrder.val.id) =
                   [Stored(last.pre, LastOrder.val.id) EXCEPT
                       !.state = IF op = "LOCK" THEN "LOCKED" ELSE "OPEN"]

\* C7: after Lock(id) (Unlock(id)) on an order the store holds, the stored
\* order is LOCKED (OPEN) and its other fields are what they were; so after
\* any sequence of such calls the state is the one the last call asks for.
C7_LockUnlockClosure ==
    \A op \in {"Lock", "Unlock"} :
        (/\ last.op = op
         /\ Has(last.pre, getOrderStorageKey(last.arg.orderID))) =>
            /\ Has(store[last.node], getOrderStorageKey(last.arg.orderID))
            /\ Stored(store[last.node], last.arg.orderID) =
                   [Stored(last.pre, last.arg.orderID) EXCEPT
                       !.state = IF op = "Lock" THEN "LOCKED" ELSE "OPEN"]

\* C8: when the buffer does not decode to a WireMessage, or its data does not
\* decode to an Order, Receive returns an error, issues no Put and no Delete,
\* and leaves the store as it was, whatever the operation.
C8_ReceiveFailsClosed ==
    (LastReceive /\ (LastWire.err \/ LastOrder.err)) =>
        /\ last.err
        /\ last.effects = <<>>
        /\ store[last.node] = last.pre
\* Undecodable data arrived in a decodable CREATE message, on a service
\* that has a Storage holding orders.
C8_Witness ==
    /\ LastReceive /\ last.with.Storage
    /\ ~LastWire.err /\ LastOrder.err
    /\ LastWire.val.operation = "CREATE"
    /\ DOMAIN last.pre # {}

\* The place of the first effect of the given kind among the last call's
\* effects, 0 if there is none.
FirstEffect(kind) ==
    IF \E i \in 1..Len(last.effects) : last.effects[i][1] = kind
    THEN CHOOSE i \in 1..Len(last.effects) :
             /\ last.effects[i][1] = kind
             /\ \A j \in 1..(i - 1) : last.effects[j][1] # kind
    ELSE 0

\* C9: when Create returns without error on a service that has a P2p, the
\* store holds the new order, in state OPEN, under the order prefix followed
\* by its id; exactly one message was handed to Send, a CREATE addressed to
\* the request's channel whose data is the bytes that were stored; and the
\* Put was issued before the Send.
C9_CreateStoresThenSends ==
    (last.op = "Create" /\ ~last.err /\ last.with.P2p) =>
        LET req == last.arg[1]
            key == <<OrderPrefix, last.ret.id>>
            s == store[last.node]
        IN  /\ Has(s, key)
            /\ UnmarshalOrder(s[key]).val = last.ret
            /\ last.ret.state = "OPEN"
            /\ Sends(last.effects) =
                   << [channelID |-> req.channelID, operation |-> "CREATE",
                       data |-> s[key]] >>
            /\ pending[last.node][Len(pending[last.node])] =
                   Sends(last.effects)[1]
            /\ FirstEffect("Put") # 0
            /\ FirstEffect("Put") < FirstEffect("Send")
C9_Witness ==
    /\ last.op = "Create" /\ ~last.err /\ last.with.P2p
    /\ last.arg[1].channelID = "c2"
    /\ DOMAIN last.pre # {}

\* C10: when the Put of the new order fails, Create returns the error and
\* hands no message to Send.
C10_FailedCreateSendsNothing ==
    (last.op = "Create" /\ StorageFailed) =>
        /\ last.err
        /\ Sends(last.effects) = <<>>

\* Node n holds a subscription to channel c that no Unsubscribe has reached.
Subscribed(n, c) == \E r \in ReadersOf(n, c) : ~readers[r].quit
\* The CREATE message Create hands to Send for the order o on channel c.
CreateMessage(o, c) ==
    [channelID |-> c, operation |-> "CREATE", data |-> MarshalOrder(o)]
\* GetOrder(o.id) on node n returns the order o.
Holds(n, o) ==
    /\ ~GetOrder(store[n], o.id).err
    /\ GetOrder(store[n], o.id).order = o
\* The last call was a Receive on n that the storage failed.
ReceiveFailedOn(n) ==
    LastReceive /\ last.node = n /\ last.err /\ StorageFailed

AppliedBoth(n, id) ==
    /\ id \in DOMAIN applied[n]
    /\ {"CREATE", "DELETE"} \subseteq applied[n][id].ops
\* C2 as claimed: once the replica has received the CREATE and the DELETE of
\* an order, in whichever order, it holds no entry for the order.
C2_AnyOrderConverges ==
    \A o \in NetOrders :
        AppliedBoth(Replica, o.id) =>
            /\ ~Has(store[Replica], getOrderStorageKey(o.id))
            /\ GetOrder(store[Replica], o.id).err
\* C2: once the replica has received the CREATE and the DELETE of an order
\* of the single writer and has applied them without storage error, the
\* DELETE last, it holds no entry for the order and GetOrder reports it as
\* not found.
C2_DeleteLastConverges ==
    \A o \in NetOrders :
        (AppliedBoth(Replica, o.id) /\ applied[Replica][o.id].lastOp = "DELETE") =>
            /\ ~Has(store[Replica], getOrderStorageKey(o.id))
            /\ GetOrder(store[Replica], o.id).err
C2_Witness ==
    \E o \in NetOrders :
        /\ AppliedBoth(Replica, o.id)
        /\ applied[Replica][o.id].lastOp = "DELETE"
        /\ ~Has(store[Writer], getOrderStorageKey(o.id))

\* The key the last call of Delete was asked to remove.
LastDeleteKey == getOrderStorageKey(last.arg.orderID)
\* C11: Delete of an order id that has no entry in the store returns an
\* error, hands no message to Send, issues no Delete to the storage and
\* leaves the store and the queue of outbound messages as they were.
C11_DeleteAbsentFails ==
    (last.op = "Delete" /\ ~Has(last.pre, LastDeleteKey)) =>
        /\ last.err
        /\ last.effects = <<>>
        /\ store[last.node] = last.pre
\* Delete was called for an order the store does not hold, on a service with
\* a P2p and a store that holds another order.
C11_Witness ==
    /\ last.op = "Delete" /\ ~Has(last.pre, LastDeleteKey)
    /\ last.with.P2p
    /\ DOMAIN last.pre # {}

\* C12: Delete of an order the store holds, on a service that has a P2p,
\* hands exactly one message to Send, a DELETE addressed to the request's
\* channel whose data is the bytes the store held for the order, and hands it
\* over before it issues the Delete to the storage; when that Delete fails,
\* the message has been handed over all the same, the error is returned and
\* the order is still stored.
C12_DeleteSendsThenRemoves ==
    (last.op = "Delete" /\ Has(last.pre, LastDeleteKey) /\ last.with.P2p) =>
        /\ Sends(last.effects) =
               << [channelID |-> last.arg.channelID, operation |-> "DELETE",
                   data |-> last.pre[LastDeleteKey]] >>
        /\ pending[last.node][Len(pending[last.node])] = Sends(last.effects)[1]
        /\ FirstEffect("Delete") # 0
        /\ FirstEffect("Send") < FirstEffect("Delete")
        /\ last.err <=> StorageFailed
        /\ StorageFailed => store[last.node] = last.pre
        /\ ~StorageFailed => ~Has(store[last.node], LastDeleteKey)
\* The removal failed after the DELETE message was handed to Send.
C12_Witness ==
    /\ last.op = "Delete" /\ Has(last.pre, LastDeleteKey) /\ last.with.P2p
    /\ StorageFailed
    /\ Len(pending[last.node]) >= 1

\* ------------------------------------------------- subscription lifecycle
\* The readers Subscribe(c) started on node n, in the order of the calls.
ReadersFor(n, c) ==
    {r \in 1..Len(readers) : readers[r].node = n /\ readers[r].channel = c}
\* Reader r took a quit signal: the Unsubscribe that sent it has returned.
UnsubscribeReturned(r) == readers[r].state \in {"quitting", "exited"}
\* Reader r is in its loop with a message of another peer to hand to the
\* registered receiver.
Delivers(r) ==
    /\ readers[r].state = "running"
    /\ readers[r].queue # <<>>
    /\ Head(readers[r].queue).from # readers[r].node
    /\ Receiver[readers[r].node]

\* C13: on every node and for every channel id at most one reader task is in
\* its loop, also after Subscribe is called for a channel that is subscribed.
C13_OneReaderPerChannel ==
    \A n \in Nodes, c \in Channels : Cardinality(ReadersOf(n, c)) <= 1

\* C14: after Subscribe(c), Unsubscribe(c) (returned) and Subscribe(c) on a
\* node, and before any further Unsubscribe(c), exactly one reader task for c
\* is in its loop: the one the second Subscribe started.
C14_ResubscribeOneReader ==
    \A n \in Nodes, c \in Channels : \A i, j \in ReadersFor(n, c) :
        (/\ i < j
         /\ ReadersFor(n, c) = {i, j}
         /\ UnsubscribeReturned(i)
         /\ ~readers[j].quit /\ ~UnsubscribeReturned(j)) =>
            ReadersOf(n, c) = {j}

\* Channel c of node n is unsubscribed: the Unsubscribe(c) that signalled the
\* reader of the last Subscribe(c) has returned, and Subscribe(c) was not
\* called since.
Unsubscribed(n, c) ==
    /\ ReadersFor(n, c) # {}
    /\ UnsubscribeReturned(
           CHOOSE j \in ReadersFor(n, c) : \A i \in ReadersFor(n, c) : i <= j)
\* C15: while channel c of a node is unsubscribed, no reader of the node hands
\* a message published on c to the registered receiver.
C15_NoDeliveryWhileUnsubscribed ==
    [][\A r \in 1..Len(readers), ok \in BOOLEAN :
          ~(/\ Unsubscribed(readers[r].node, readers[r].channel)
            /\ Delivers(r)
            /\ ReaderStep(r, ok))]_vars

\* C16: once Unsubscribe(c) has sent its signal to the reader of an active
\* subscription, the reader eventually terminates and the map no longer
\* holds its quitSignal (the tasks being scheduled fairly).
C16_UnsubscribeStopsReader ==
    \A r \in 1..MaxReaders :
        (/\ r \in 1..Len(readers)
         /\ readers[r].state = "running" /\ readers[r].quit)
        ~> (/\ r \in 1..Len(readers)
            /\ readers[r].state \in {"exited", "dead"}
            /\ subscriptions[readers[r].node][readers[r].channel] # r)

\* C17: Unsubscribe returns at once: in no state is a call of Unsubscribe
\* waiting for the reader to take its signal.
C17_UnsubscribeReturnsAtOnce ==
    \A r \in 1..Len(readers) : ~readers[r].quit

\* C18: the drain task takes the messages of a node in the order of the Send
\* calls: whenever it takes one, it is the one that was handed to Send first.
C18_SendFifo ==
    [][\A n \in Nodes :
          (running'[n] /\ Len(pending'[n]) < Len(pending[n])) =>
              pending'[n] = Tail(pending[n])]_vars

\* C19: on a node with a registered receiver, a turn of a reader calls
\* Receive, with the data of the message it read, exactly when the message's
\* origin is another peer; on a message of the node itself the turn leaves
\* the order service and its storage as they were.
C19_SelfFiltering ==
    [][\A r \in 1..Len(readers), ok \in BOOLEAN :
          (/\ readers[r].state = "running"
           /\ readers[r].queue # <<>>
           /\ Receiver[readers[r].node]
           /\ ReaderStep(r, ok)) =>
              IF Head(readers[r].queue).from # readers[r].node
              THEN /\ last'.op = "Receive"
                   /\ last'.node = readers[r].node
                   /\ last'.arg = Head(readers[r].queue).data
              ELSE UNCHANGED <<service, applied>>]_vars
\* A reader of the writer read a message of the writer itself, and the last
\* call of the order service is not a Receive on the writer.
C19_Witness ==
    \E r \in 1..Len(readers) :
        /\ readers[r].node = Writer /\ readers[r].peer = Writer
        /\ readers[r].state = "running"
        /\ ~(last.op = "Receive" /\ last.node = Writer)
        /\ DOMAIN store[Writer] # {}

\* C20: when the Receive a reader called returns an error and no Unsubscribe
\* is waiting on the reader, the reader stays in its loop and keeps the
\* messages it has buffered, to be handed to the receiver in later turns.
C20_ReaderSurvivesError ==
    [][\A r \in 1..Len(readers), ok \in BOOLEAN :
          (/\ Delivers(r)
           /\ ~readers[r].quit
           /\ ReaderStep(r, ok)
           /\ last'.err) =>
              /\ readers'[r].state = "running"
              /\ readers'[r].queue = Tail(readers[r].queue)]_vars
\* The one reader of the replica got an error from Receive, is still in its
\* loop and has the next message of the writer buffered.
C20_Witness ==
    /\ Len(readers) = 1
    /\ readers[1].node = Replica /\ readers[1].peer = Writer
    /\ readers[1].state = "running"
    /\ last.op = "Receive" /\ last.node = Replica /\ last.err
    /\ readers[1].queue # <<>>
    /\ UnmarshalWire(Head(readers[1].queue).data).val.operation = "DELETE"


\* C21: once Close() has torn the host down, every reader task of the node
\* terminates, with no Unsubscribe needed.
C21_CloseStopsReaders ==
    \A r \in 1..MaxReaders :
        (host[Writer].state = "closed" /\ r \in 1..host[Writer].atClose)
            ~> (r \in 1..Len(readers)
                /\ readers[r].state \in {"exited", "dead"})

\* C22: when the creation of the host fails, Run() stops there: none of the
\* startup steps after initHost is entered.
C22_HostFailureAborts ==
    \A n \in Nodes :
        host[n].hostErr =>
            \A i \in 1..Len(host[n].steps) :
                host[n].steps[i] \in {"initContext", "initHost"}

\* C23: however often Run() is called, the node has the one host of its
\* first Run(), one drain task and one peer-connect task.
C23_RunIdempotent ==
    \A n \in Nodes :
        /\ host[n].hosts <= 1
        /\ host[n].drains <= 1
        /\ host[n].connects <= 1

\* The keypair the storage s holds, when it holds one.
HasIdentity(s) == ~getKeyPair(s).err
SameKeys(a, b) == a.privateKey = b.privateKey /\ a.publicKey = b.publicKey

\* C24: a GetIdentity on a store without a keypair whose generation and
\* Puts succeed returns a new keypair and leaves it in the store; a
\* GetIdentity on a store that holds a keypair returns that keypair and
\* generates and stores nothing; and no Create or Delete of an order changes
\* the keypair the store holds. So every call after the first returns the
\* keys of the first.
C24_IdentityReused ==
    [][LET s == store[Local]
           t == store'[Local]
       IN  /\ HasIdentity(s) => HasIdentity(t) /\ SameKeys(getKeyPair(s), getKeyPair(t))
           /\ (\E seed \in Seeds, genOk \in BOOLEAN, ok1 \in BOOLEAN,
                  ok2 \in BOOLEAN : GetIdentity(Local, seed, genOk, ok1, ok2))
              => IF HasIdentity(s)
                 THEN /\ SameKeys(last'.ret, getKeyPair(s))
                      /\ ~last'.err
                      /\ last'.effects = <<>>
                      /\ t = s
                 ELSE ~last'.err =>
                      /\ last'.ret.privateKey # NoKey
                      /\ last'.ret.publicKey = GetPublic(last'.ret.privateKey)
                      /\ HasIdentity(t)
                      /\ SameKeys(getKeyPair(t), last'.ret)]_vars

\* A GetIdentity has returned the keypair an earlier one generated and
\* stored, with orders in the store beside it.
C24_Witness ==
    /\ last.op = "GetIdentity"
    /\ HasIdentity(last.pre)
    /\ last.effects = <<>>
    /\ SameKeys(last.ret, getKeyPair(store[Local]))
    /\ \E id \in OrderIDs : Has(store[Local], getOrderStorageKey(id))

\* C25: the runtime never finds two tasks in the map of subscriptions at
\* the same time: no node is ended by a concurrent access to it.
C25_TableSerialized ==
    \A n \in Nodes : host[n].fault # "concurrent map access"

\* C26: a Subscribe whose join failed starts no reader and leaves no entry in
\* the map, and the node keeps running.
C26_FailedJoinSkipped ==
    /\ \A r \in 1..Len(readers) : readers[r].sub
    /\ \A n \in Nodes : host[n].fault # "nil subscription"

\* The reader the last Subscribe(c) on node n started.
NewestReader(n, c) ==
    LET rs == {r \in 1..Len(readers) :
                  readers[r].node = n /\ readers[r].channel = c}
    IN  IF rs = {} THEN 0 ELSE CHOOSE r \in rs : \A q \in rs : q <= r

\* C27: while the reader of the last Subscribe(c) is in its loop and no
\* Unsubscribe has signalled it, the map holds its quitSignal under c: the
\* reader of an earlier subscription of c does not remove the entry.
C27_EntryIsOwn ==
    \A n \in Nodes, c \in Channels :
        LET r == NewestReader(n, c)
        IN  (r # 0 /\ readers[r].state = "running" /\ ~readers[r].quit)
                => subscriptions[n][c] = r

\* C28: every entry of the storage under the order prefix holds an order,
\* and its key is the prefix followed by the id that order carries.
C28_KeyIsOrderId ==
    \A n \in Nodes : \A k \in DOMAIN store[n] :
        k[1] = OrderPrefix =>
            /\ ~UnmarshalOrder(store[n][k]).err
            /\ k = getOrderStorageKey(UnmarshalOrder(store[n][k]).val.id)

\* The store holds an order Create put there and another one that came in
\* through Receive.
C28_Witness ==
    /\ LastReceiveOf("CREATE") /\ ~last.err
    /\ ~Has(last.pre, LastKey)
    /\ Has(store[Local], LastKey)
    /\ \E req \in Requests, now \in Times :
           /\ getOrderStorageKey(OrderID(req, now)) # LastKey
           /\ Has(store[Local], getOrderStorageKey(OrderID(req, now)))
           /\ store[Local][getOrderStorageKey(OrderID(req, now))]
                  = MarshalOrder(NewOrder(req, now))

====
